---- MODULE Spec2Model ----
(***************************************************************************)
(* Model of RustGetSystemInfo (src/src/main.rs): format_bytes, the         *)
(* collection of the SystemInfo snapshot, the console report, and the      *)
(* serialize / create / write / confirm tail of run() with main()'s exit   *)
(* codes.                                                                  *)
(*                                                                         *)
(* Numbers.  A u64 does not fit TLC's integers, so a u64 is a tuple of     *)
(* NLimbs base-1024 limbs, least significant first: the value of <<a1, .., *)
(* a7>> is a1 + a2*1024 + ... + a7*1024^6, with a7 <= 15.  An f64 that     *)
(* holds an integer (the result of `bytes as f64`) uses the same tuples,   *)
(* with a7 = 16 for 2^64.  Text is a sequence of one-character strings.    *)
(***************************************************************************)
EXTENDS Integers, Sequences, FiniteSets, TLC

\* ------------------------------------------------------------------------
\* Number representation
\* ------------------------------------------------------------------------

\* Base of a limb: THRESHOLD, the 1024 of format_bytes.
THRESHOLD == 1024

\* Limbs of a 64-bit value in base 1024 (6 * 10 bits + 4 bits).
NLimbs == 7

\* Exclusive bound of the most significant limb of a u64: 2^(64 - 60).
TopLimbBound == 16

\* Mantissa width of an f64.
F64Mantissa == 53

Zero64 == <<0, 0, 0, 0, 0, 0, 0>>

IsZero(a) == \A i \in 1..Len(a) : a[i] = 0

\* Index of the most significant non-zero limb, 0 for the value zero.
TopIdx(a) ==
    IF IsZero(a) THEN 0
    ELSE CHOOSE i \in 1..Len(a) : a[i] # 0 /\ \A j \in (i+1)..Len(a) : a[j] = 0

\* a < b for two limb tuples of equal length.
Lt(a, b) ==
    \E i \in 1..Len(a) :
        /\ a[i] < b[i]
        /\ \A j \in (i+1)..Len(a) : a[j] = b[j]

RECURSIVE BitLen(_)
BitLen(x) == IF x = 0 THEN 0 ELSE 1 + BitLen(x \div 2)

\* Adds carry c into limb i and upwards; the last limb absorbs the carry.
RECURSIVE Propagate(_, _, _)
Propagate(a, i, c) ==
    IF c = 0 \/ i > Len(a) THEN a
    ELSE IF i = Len(a) THEN [a EXCEPT ![i] = a[i] + c]
    ELSE LET s == a[i] + c
         IN  Propagate([a EXCEPT ![i] = s % THRESHOLD], i + 1, s \div THRESHOLD)

\* a * m + c for a small m; the result has one more limb than a.
RECURSIVE MulSmall(_, _, _)
MulSmall(a, m, c) ==
    IF a = <<>> THEN <<c>>
    ELSE LET s == Head(a) * m + c
         IN  <<s % THRESHOLD>> \o MulSmall(Tail(a), m, s \div THRESHOLD)

\* Long division of a by a small d, from the most significant limb down,
\* with incoming remainder r: <<quotient, remainder>>.
RECURSIVE DivRem(_, _, _)
DivRem(a, d, r) ==
    IF a = <<>> THEN <<<<>>, r>>
    ELSE LET n    == Len(a)
             cur  == r * THRESHOLD + a[n]
             rest == DivRem(SubSeq(a, 1, n - 1), d, cur % d)
         IN  <<Append(rest[1], cur \div d), rest[2]>>

\* u64 subtraction of the release build: a - b modulo 2^64.
RECURSIVE SubBorrow(_, _, _, _)
SubBorrow(a, b, i, borrow) ==
    IF i > NLimbs THEN <<>>
    ELSE LET base == IF i = NLimbs THEN TopLimbBound ELSE THRESHOLD
             d    == a[i] - b[i] - borrow
         IN  <<d % base>> \o SubBorrow(a, b, i + 1, IF d < 0 THEN 1 ELSE 0)

wrapping_sub(a, b) == SubBorrow(a, b, 1, 0)

\* ------------------------------------------------------------------------
\* Text
\* ------------------------------------------------------------------------

Digit == <<"0", "1", "2", "3", "4", "5", "6", "7", "8", "9">>

RECURSIVE DecDigits(_)
DecDigits(a) ==
    IF IsZero(a) THEN <<>>
    ELSE LET dr == DivRem(a, 10, 0)
         IN  Append(DecDigits(dr[1]), Digit[dr[2] + 1])

\* `{}` of an unsigned integer: its decimal digits, "0" for zero.
Display(a) == IF IsZero(a) THEN <<"0">> ELSE DecDigits(a)

\* ------------------------------------------------------------------------
\* format_bytes
\* ------------------------------------------------------------------------

UNITS == << <<"B">>, <<"K", "B">>, <<"M", "B">>, <<"G", "B">>, <<"T", "B">> >>

\* `bytes as f64`: round to nearest, ties to even, on a 53-bit mantissa.
AsF64(a) ==
    LET top  == TopIdx(a)
        bits == IF top = 0 THEN 0 ELSE 10 * (top - 1) + BitLen(a[top])
    IN  IF bits <= F64Mantissa THEN a
        ELSE LET drop == bits - F64Mantissa
                 w    == a[1] + THRESHOLD * a[2]
                 low  == w % (2 ^ drop)
                 half == 2 ^ (drop - 1)
                 lsb  == (w \div (2 ^ drop)) % 2
                 up   == low > half \/ (low = half /\ lsb = 1)
                 w2   == w - low + (IF up THEN 2 ^ drop ELSE 0)
                 r    == [a EXCEPT ![1] = w2 % THRESHOLD,
                                   ![2] = (w2 \div THRESHOLD) % THRESHOLD]
             IN  Propagate(r, 3, w2 \div (THRESHOLD * THRESHOLD))

\* FloorLog with the decimal base: bytes_f.log(1000.0).floor(), which differs
\* from the base-1024 logarithm below 1024 on 1000..1023.
FloorLog_m(bytes_f) ==
    IF TopIdx(bytes_f) = 1 /\ bytes_f[1] >= 1000 THEN 1 ELSE TopIdx(bytes_f) - 1

\* bytes_f.log(THRESHOLD).floor() for bytes_f >= 1.  The f64 quotient
\* ln(x)/ln(1024) has the exact floor for every x < 1024^4 + 1 that an
\* integer can take (the quotient is exactly k at 1024^k and is more than
\* 1e-13 away from k next to it); above 1024^4 it can be off by one upwards
\* (1024^5 - 1 gives 5.0) but never drops below 4, which .min() hides.
FloorLog(bytes_f) == TopIdx(bytes_f) - 1

\* `{:.2}` of bytes_f / THRESHOLD^k: the exact quotient (a division by a
\* power of two is exact), rounded to hundredths, ties to even.
Fixed2(bytes_f, k) ==
    LET whole == SubSeq(bytes_f, k + 1, Len(bytes_f))
        g     == MulSmall(SubSeq(bytes_f, 1, k), 100, 0)
        q     == g[k + 1]
        lower == \E i \in 1..(k - 1) : g[i] # 0
        gt    == g[k] > 512 \/ (g[k] = 512 /\ lower)
        eq    == g[k] = 512 /\ ~lower
        centi == IF gt \/ (eq /\ q % 2 = 1) THEN q + 1 ELSE q
        int   == IF centi = 100 THEN Propagate(whole, 1, 1) ELSE whole
        c     == centi % 100
    IN  Display(int) \o <<".", Digit[(c \div 10) + 1], Digit[(c % 10) + 1]>>

\* format_bytes clamping the unit index one short of the table's end.
format_bytes_m(bytes) ==
    IF IsZero(bytes) THEN <<"0", " ", "B">>
    ELSE LET bytes_f    == AsF64(bytes)
             log        == FloorLog(bytes_f)
             unit_index == IF log < Len(UNITS) - 2 THEN log ELSE Len(UNITS) - 2
         IN  IF unit_index = 0
             THEN Display(bytes) \o <<" ">> \o UNITS[unit_index + 1]
             ELSE Fixed2(bytes_f, unit_index) \o <<" ">> \o UNITS[unit_index + 1]

format_bytes(bytes) ==
    IF IsZero(bytes) THEN <<"0", " ", "B">>
    ELSE LET bytes_f    == AsF64(bytes)
             log        == FloorLog(bytes_f)
             unit_index == IF log < Len(UNITS) - 1 THEN log ELSE Len(UNITS) - 1
         IN  IF unit_index = 0
             THEN Display(bytes) \o <<" ">> \o UNITS[unit_index + 1]
             ELSE Fixed2(bytes_f, unit_index) \o <<" ">> \o UNITS[unit_index + 1]

\* `{}`-free inverse used by a reader of the JSON file: decimal digits to a
\* u64 (Horner's rule on the limbs).
DigitVal(ch) == CHOOSE d \in 0..9 : Digit[d + 1] = ch

RECURSIVE ParseDec(_)
ParseDec(text) ==
    IF text = <<>> THEN Zero64
    ELSE LET n   == Len(text)
             acc == ParseDec(SubSeq(text, 1, n - 1))
             m   == MulSmall(SubSeq(acc, 1, NLimbs - 1), 10, DigitVal(text[n]))
         IN  [m EXCEPT ![NLimbs] = m[NLimbs] + acc[NLimbs] * 10]

\* ------------------------------------------------------------------------
\* The host, as the sysinfo collaborator reports it
\* ------------------------------------------------------------------------

MaxDisks == 2
MaxNets == 1

Some(v) == [some |-> TRUE, val |-> v]
NoneStr == [some |-> FALSE, val |-> ""]
NoneNum == [some |-> FALSE, val |-> 0]

One64   == <<1, 0, 0, 0, 0, 0, 0>>
KiB     == <<0, 1, 0, 0, 0, 0, 0>>
GiB     == <<0, 0, 0, 1, 0, 0, 0>>
GiB8    == <<0, 0, 0, 8, 0, 0, 0>>
GiB16   == <<0, 0, 0, 16, 0, 0, 0>>
TiB     == <<0, 0, 0, 0, 1, 0, 0>>
U64Max  == <<1023, 1023, 1023, 1023, 1023, 1023, 15>>

\* The three optional accessors: all unavailable, all available, and the
\* name alone.
OsSamples ==
    { [name |-> NoneStr, os_version |-> NoneStr, physical_core_count |-> NoneNum],
      [name |-> Some("Linux"), os_version |-> Some("6.1"),
       physical_core_count |-> Some(4)],
      [name |-> Some("Linux"), os_version |-> NoneStr,
       physical_core_count |-> NoneNum] }

MemSamples ==
    { [total_memory |-> GiB16, used_memory |-> GiB8,
       total_swap |-> Zero64, used_swap |-> Zero64],
      [total_memory |-> KiB, used_memory |-> <<1023, 0, 0, 0, 0, 0, 0>>,
       total_swap |-> <<512, 1, 0, 0, 0, 0, 0>>, used_swap |-> One64],
      [total_memory |-> U64Max, used_memory |-> TiB,
       total_swap |-> GiB, used_swap |-> <<1023, 1023, 0, 0, 0, 0, 0>>] }

DiskSamples ==
    { [mount_point |-> "/", file_system |-> "ext4",
       total_space |-> TiB, available_space |-> <<0, 0, 0, 512, 0, 0, 0>>],
      [mount_point |-> "/boot", file_system |-> "vfat",
       total_space |-> Zero64, available_space |-> Zero64],
      [mount_point |-> "/snap", file_system |-> "squashfs",
       total_space |-> Zero64, available_space |-> One64],
      [mount_point |-> "/mnt", file_system |-> "",
       total_space |-> KiB, available_space |-> <<512, 1, 0, 0, 0, 0, 0>>] }

NetSamples ==
    { [name |-> "lo", received |-> <<0, 0, 3, 0, 0, 0, 0>>,
       transmitted |-> <<0, 0, 3, 0, 0, 0, 0>>,
       packets_received |-> <<10, 0, 0, 0, 0, 0, 0>>,
       packets_transmitted |-> <<10, 0, 0, 0, 0, 0, 0>>],
      [name |-> "eth0", received |-> U64Max, transmitted |-> Zero64,
       packets_received |-> <<0, 1, 0, 0, 0, 0, 0>>,
       packets_transmitted |-> Zero64] }

SeqsUpTo(S, n) == UNION { [1..k -> S] : k \in 0..n }

\* What System::new_all() + refresh_all() can hand to run().
Hosts ==
    { [name |-> o.name, os_version |-> o.os_version,
       physical_core_count |-> o.physical_core_count,
       memory |-> m, disks |-> d, networks |-> w] :
        o \in OsSamples,
        m \in MemSamples,
        d \in SeqsUpTo(DiskSamples, MaxDisks),
        w \in SeqsUpTo(NetSamples, MaxNets) }

\* ------------------------------------------------------------------------
\* State
\* ------------------------------------------------------------------------

VARIABLES
    pc,             \* position in main()/run()
    overflowChecks, \* build setting: does an overflowing `-` panic (debug) or wrap
    sys,            \* the host as the collaborator reports it
    info,           \* the SystemInfo snapshot of run()
    diskIdx,        \* position of `for disk in &info.disks`
    stdout,         \* lines printed with println!
    stderr,         \* lines printed with eprintln! or by the panic handler
    json,           \* the String returned by to_string_pretty
    steps,          \* outcome of serialize / create / write: "none", "ok", "fail"
    err,            \* the AppError run() returned
    handle,         \* the File of run(): "none", "open", "closed"
    opens,          \* number of File::create calls that opened the file
    writes,         \* number of write_all calls issued
    fileContent,    \* system_info.json in the working directory
    fileContent0,   \* system_info.json before the run
    exitCode,       \* process exit status, NoExit while running
    fmtIn,          \* argument of the format_bytes harness
    fmtOut          \* result of the format_bytes harness

vars == <<pc, overflowChecks, sys, info, diskIdx, stdout, stderr, json, steps,
          err, handle, opens, writes, fileContent, fileContent0, exitCode,
          fmtIn, fmtOut>>

NoExit == 0 - 1

\* Exit status of a Rust process whose main thread panicked.
PanicExit == 101

NoError == [kind |-> "None", cause |-> ""]

EmptyInfo ==
    [os_name |-> "", os_version |-> "", cpu_cores |-> 0,
     total_memory |-> Zero64, used_memory |-> Zero64,
     total_swap |-> Zero64, used_swap |-> Zero64,
     disks |-> <<>>, networks |-> <<>>]

NoFile == [exists |-> FALSE, data |-> <<>>]

\* A file left by an earlier run.
OldFile ==
    [exists |-> TRUE,
     data |-> << [key |-> "", kind |-> "stale", str |-> "earlier run", num |-> <<>>] >>]

\* ------------------------------------------------------------------------
\* Collection
\* ------------------------------------------------------------------------

DiskInfo(disk) ==
    [name |-> disk.mount_point, file_system |-> disk.file_system,
     total_space |-> disk.total_space, available_space |-> disk.available_space]

NetworkInfo(network) ==
    [name |-> network.name,
     bytes_received |-> network.received,
     bytes_transmitted |-> network.transmitted,
     packets_received |-> network.packets_received,
     packets_transmitted |-> network.packets_transmitted]

\* SystemInfo with used_memory filled from total_memory.
SystemInfo_m(s) ==
    [os_name      |-> IF s.name.some THEN s.name.val ELSE "N/A",
     os_version   |-> IF s.os_version.some THEN s.os_version.val ELSE "N/A",
     cpu_cores    |-> IF s.physical_core_count.some THEN s.physical_core_count.val ELSE 0,
     total_memory |-> s.memory.total_memory,
     used_memory  |-> s.memory.total_memory,
     total_swap   |-> s.memory.total_swap,
     used_swap    |-> s.memory.used_swap,
     disks        |-> [i \in 1..Len(s.disks) |-> DiskInfo(s.disks[i])],
     networks     |-> [i \in 1..Len(s.networks) |-> NetworkInfo(s.networks[i])]]

SystemInfo(s) ==
    [os_name      |-> IF s.name.some THEN s.name.val ELSE "N/A",
     os_version   |-> IF s.os_version.some THEN s.os_version.val ELSE "N/A",
     cpu_cores    |-> IF s.physical_core_count.some THEN s.physical_core_count.val ELSE 0,
     total_memory |-> s.memory.total_memory,
     used_memory  |-> s.memory.used_memory,
     total_swap   |-> s.memory.total_swap,
     used_swap    |-> s.memory.used_swap,
     disks        |-> [i \in 1..Len(s.disks) |-> DiskInfo(s.disks[i])],
     networks     |-> [i \in 1..Len(s.networks) |-> NetworkInfo(s.networks[i])]]

Collect ==
    /\ pc = "start"
    /\ info' = SystemInfo(sys)
    /\ pc' = "print_sys"
    /\ UNCHANGED <<overflowChecks, sys, diskIdx, stdout, stderr, json, steps, err,
                   handle, opens, writes, fileContent, fileContent0, exitCode,
                   fmtIn, fmtOut>>

\* ------------------------------------------------------------------------
\* Console report
\* ------------------------------------------------------------------------

TextLine(kind) == [kind |-> kind]
StrLine(kind, s) == [kind |-> kind, str |-> s]
BytesLine(kind, n) == [kind |-> kind, text |-> format_bytes(n)]

SystemLines(i) ==
    << TextLine("System Information:"),
       StrLine("  OS Name: ", i.os_name),
       StrLine("  OS Version: ", i.os_version),
       [kind |-> "  CPU Cores: ", count |-> i.cpu_cores],
       BytesLine("  Total Memory: ", i.total_memory),
       BytesLine("  Used Memory: ", i.used_memory),
       BytesLine("  Total Swap: ", i.total_swap),
       BytesLine("  Used Swap: ", i.used_swap) >>

PrintSystem ==
    /\ pc = "print_sys"
    /\ stdout' = stdout \o SystemLines(info)
    /\ pc' = "print_disks"
    /\ UNCHANGED <<overflowChecks, sys, info, diskIdx, stderr, json, steps, err,
                   handle, opens, writes, fileContent, fileContent0, exitCode,
                   fmtIn, fmtOut>>

PrintDiskHeader ==
    /\ pc = "print_disks"
    /\ IF info.disks = <<>>
       THEN /\ stdout' = stdout \o <<TextLine("\nDisk Usage:"),
                                     TextLine("  No disks detected")>>
            /\ pc' = "print_nets"
       ELSE /\ stdout' = Append(stdout, TextLine("\nDisk Usage:"))
            /\ pc' = "disk_loop"
    /\ diskIdx' = 1
    /\ UNCHANGED <<overflowChecks, sys, info, stderr, json, steps, err,
                   handle, opens, writes, fileContent, fileContent0, exitCode,
                   fmtIn, fmtOut>>

\* The f64 a disk line shows with {:.1}: [num, den] stands for
\* (num as f64 / den as f64) * 100.0, and PercentZero for the literal 0.0.
PercentZero == [num |-> Zero64, den |-> One64]

usage_percent(used_space, total_space) ==
    IF ~IsZero(total_space)
    THEN [num |-> used_space, den |-> total_space]
    ELSE PercentZero

\* `disk.total_space - disk.available_space` overflows.
SubOverflows(disk) == Lt(disk.total_space, disk.available_space)

DiskLine(disk) ==
    LET used_space == wrapping_sub(disk.total_space, disk.available_space)
    IN  [kind |-> "disk", name |-> disk.name,
         used |-> format_bytes(used_space),
         total |-> format_bytes(disk.total_space),
         percent |-> usage_percent(used_space, disk.total_space),
         available |-> format_bytes(disk.available_space),
         file_system |-> disk.file_system]

\* One iteration of the disk loop that reaches its println!.
PrintDisk ==
    /\ pc = "disk_loop"
    /\ ~(overflowChecks /\ SubOverflows(info.disks[diskIdx]))
    /\ stdout' = Append(stdout, DiskLine(info.disks[diskIdx]))
    /\ diskIdx' = diskIdx + 1
    /\ pc' = IF diskIdx = Len(info.disks) THEN "print_nets" ELSE "disk_loop"
    /\ UNCHANGED <<overflowChecks, sys, info, stderr, json, steps, err,
                   handle, opens, writes, fileContent, fileContent0, exitCode,
                   fmtIn, fmtOut>>

\* One iteration of the disk loop in a build with overflow checks, on a
\* disk whose available_space exceeds its total_space: the subtraction
\* panics, the panic handler writes to stderr and the process ends.
PanicDisk ==
    /\ pc = "disk_loop"
    /\ overflowChecks /\ SubOverflows(info.disks[diskIdx])
    /\ stderr' = Append(stderr, [kind |-> "panic",
                                 desc |-> "attempt to subtract with overflow",
                                 cause |-> ""])
    /\ exitCode' = PanicExit
    /\ pc' = "exited"
    /\ UNCHANGED <<overflowChecks, sys, info, diskIdx, stdout, json, steps, err,
                   handle, opens, writes, fileContent, fileContent0,
                   fmtIn, fmtOut>>

NetworkLines(network) ==
    << StrLine("net", network.name),
       [kind |-> "    Received: ", text |-> format_bytes(network.bytes_received),
        packets |-> Display(network.packets_received)],
       [kind |-> "    Transmitted: ", text |-> format_bytes(network.bytes_transmitted),
        packets |-> Display(network.packets_transmitted)] >>

RECURSIVE AllNetworkLines(_)
AllNetworkLines(networks) ==
    IF networks = <<>> THEN <<>>
    ELSE NetworkLines(Head(networks)) \o AllNetworkLines(Tail(networks))

\* PrintNetworks placed after the file steps: run() goes on to serialize
\* with the network section still unprinted.
PrintNetworks_m ==
    /\ pc = "print_nets"
    /\ pc' = "serialize"
    /\ UNCHANGED <<overflowChecks, sys, info, diskIdx, stdout, stderr, json, steps,
                   err, handle, opens, writes, fileContent, fileContent0, exitCode,
                   fmtIn, fmtOut>>

PrintNetworks ==
    /\ pc = "print_nets"
    /\ stdout' = stdout \o <<TextLine("\nNetwork Interfaces:")>> \o
                 (IF info.networks = <<>>
                  THEN <<TextLine("  No network interfaces detected")>>
                  ELSE AllNetworkLines(info.networks))
    /\ pc' = "serialize"
    /\ UNCHANGED <<overflowChecks, sys, info, diskIdx, stderr, json, steps, err,
                   handle, opens, writes, fileContent, fileContent0, exitCode,
                   fmtIn, fmtOut>>

\* ------------------------------------------------------------------------
\* JSON
\* ------------------------------------------------------------------------

\* The document is the sequence of tokens the serializer emits, in order:
\* a number is its decimal text, a string is kept as it is.
JNum(key, n)  == [key |-> key, kind |-> "number", str |-> "", num |-> Display(n)]
JStr(key, s)  == [key |-> key, kind |-> "string", str |-> s, num |-> <<>>]
JMark(key, k) == [key |-> key, kind |-> k, str |-> "", num |-> <<>>]

\* A usize that fits one limb, as a u64.
FromUsize(n) == <<n, 0, 0, 0, 0, 0, 0>>

DiskJson(d) ==
    << JMark("", "begin_object"),
       JStr("name", d.name),
       JStr("file_system", d.file_system),
       JNum("total_space", d.total_space),
       JNum("available_space", d.available_space),
       JMark("", "end_object") >>

NetworkJson(n) ==
    << JMark("", "begin_object"),
       JStr("name", n.name),
       JNum("bytes_received", n.bytes_received),
       JNum("bytes_transmitted", n.bytes_transmitted),
       JNum("packets_received", n.packets_received),
       JNum("packets_transmitted", n.packets_transmitted),
       JMark("", "end_object") >>

RECURSIVE Concat(_)
Concat(ss) == IF ss = <<>> THEN <<>> ELSE Head(ss) \o Concat(Tail(ss))

\* serde_json::to_string_pretty(&info) with the derived Serialize impls:
\* the fields in declaration order, the raw values.
to_string_pretty(i) ==
    << JMark("", "begin_object"),
       JStr("os_name", i.os_name),
       JStr("os_version", i.os_version),
       JNum("cpu_cores", FromUsize(i.cpu_cores)),
       JNum("total_memory", i.total_memory),
       JNum("used_memory", i.used_memory),
       JNum("total_swap", i.total_swap),
       JNum("used_swap", i.used_swap),
       JMark("disks", "begin_array") >>
    \o Concat([k \in 1..Len(i.disks) |-> DiskJson(i.disks[k])])
    \o << JMark("", "end_array"), JMark("networks", "begin_array") >>
    \o Concat([k \in 1..Len(i.networks) |-> NetworkJson(i.networks[k])])
    \o << JMark("", "end_array"), JMark("", "end_object") >>

\* ------------------------------------------------------------------------
\* Serialize, create, write, confirm
\* ------------------------------------------------------------------------

SerializeOk ==
    /\ pc = "serialize"
    /\ json' = to_string_pretty(info)
    /\ steps' = [steps EXCEPT !.serialize = "ok"]
    /\ pc' = "create"
    /\ UNCHANGED <<overflowChecks, sys, info, diskIdx, stdout, stderr, err,
                   handle, opens, writes, fileContent, fileContent0, exitCode,
                   fmtIn, fmtOut>>

\* SerializeFail with File::create placed before the serialization: the
\* file is already truncated when to_string_pretty returns Err.
SerializeFail_m ==
    /\ pc = "serialize"
    /\ steps' = [steps EXCEPT !.serialize = "fail"]
    /\ err' = [kind |-> "JsonSerialization", cause |-> "serde_json::Error"]
    /\ opens' = opens + 1
    /\ handle' = "closed"
    /\ fileContent' = [exists |-> TRUE, data |-> <<>>]
    /\ pc' = "main_err"
    /\ UNCHANGED <<overflowChecks, sys, info, diskIdx, stdout, stderr, json,
                   writes, fileContent0, exitCode, fmtIn, fmtOut>>

\* to_string_pretty returned Err: `?` returns AppError::JsonSerialization.
SerializeFail ==
    /\ pc = "serialize"
    /\ steps' = [steps EXCEPT !.serialize = "fail"]
    /\ err' = [kind |-> "JsonSerialization", cause |-> "serde_json::Error"]
    /\ pc' = "main_err"
    /\ UNCHANGED <<overflowChecks, sys, info, diskIdx, stdout, stderr, json,
                   handle, opens, writes, fileContent, fileContent0, exitCode,
                   fmtIn, fmtOut>>

\* File::create succeeded: the file exists and is empty, the handle is open.
CreateOk ==
    /\ pc = "create"
    /\ steps' = [steps EXCEPT !.create = "ok"]
    /\ handle' = "open"
    /\ opens' = opens + 1
    /\ fileContent' = [exists |-> TRUE, data |-> <<>>]
    /\ pc' = "write"
    /\ UNCHANGED <<overflowChecks, sys, info, diskIdx, stdout, stderr, json, err,
                   writes, fileContent0, exitCode, fmtIn, fmtOut>>

\* File::create returned Err: `?` returns AppError::FileCreation.
CreateFail ==
    /\ pc = "create"
    /\ steps' = [steps EXCEPT !.create = "fail"]
    /\ err' = [kind |-> "FileCreation", cause |-> "std::io::Error"]
    /\ pc' = "main_err"
    /\ UNCHANGED <<overflowChecks, sys, info, diskIdx, stdout, stderr, json,
                   handle, opens, writes, fileContent, fileContent0, exitCode,
                   fmtIn, fmtOut>>

WriteOk ==
    /\ pc = "write"
    /\ steps' = [steps EXCEPT !.write = "ok"]
    /\ writes' = writes + 1
    /\ fileContent' = [exists |-> TRUE, data |-> json]
    /\ pc' = "confirm"
    /\ UNCHANGED <<overflowChecks, sys, info, diskIdx, stdout, stderr, json, err,
                   handle, opens, fileContent0, exitCode, fmtIn, fmtOut>>

\* How much of the document a failed write_all can leave in the file: any
\* proper prefix; nothing, half of it and all but the last token are taken.
PartialWrites(j) == {0, Len(j) \div 2, Len(j) - 1}

\* WriteFail with the confirmation printed before the result of write_all is
\* looked at.
WriteFail_m ==
    /\ pc = "write"
    /\ \E k \in PartialWrites(json) :
           fileContent' = [exists |-> TRUE, data |-> SubSeq(json, 1, k)]
    /\ stdout' = Append(stdout, [kind |-> "System information saved to system_info.json"])
    /\ steps' = [steps EXCEPT !.write = "fail"]
    /\ writes' = writes + 1
    /\ err' = [kind |-> "FileWrite", cause |-> "std::io::Error"]
    /\ handle' = "closed"
    /\ pc' = "main_err"
    /\ UNCHANGED <<overflowChecks, sys, info, diskIdx, stderr, json,
                   opens, fileContent0, exitCode, fmtIn, fmtOut>>

\* write_all returned Err after writing some proper prefix: `?` returns
\* AppError::FileWrite, and leaving run() drops (closes) the File.
WriteFail ==
    /\ pc = "write"
    /\ \E k \in PartialWrites(json) :
           fileContent' = [exists |-> TRUE, data |-> SubSeq(json, 1, k)]
    /\ steps' = [steps EXCEPT !.write = "fail"]
    /\ writes' = writes + 1
    /\ err' = [kind |-> "FileWrite", cause |-> "std::io::Error"]
    /\ handle' = "closed"
    /\ pc' = "main_err"
    /\ UNCHANGED <<overflowChecks, sys, info, diskIdx, stdout, stderr, json,
                   opens, fileContent0, exitCode, fmtIn, fmtOut>>

SavedLine == TextLine("System information saved to system_info.json")

\* Confirm with the File kept alive past run() (a leaked handle): nothing
\* closes it before the process ends.
Confirm_m ==
    /\ pc = "confirm"
    /\ stdout' = Append(stdout, SavedLine)
    /\ pc' = "main_ok"
    /\ UNCHANGED <<overflowChecks, sys, info, diskIdx, stderr, json, steps, err,
                   handle, opens, writes, fileContent, fileContent0, exitCode,
                   fmtIn, fmtOut>>

\* println! of the confirmation, then Ok(()): leaving run() drops the File.
Confirm ==
    /\ pc = "confirm"
    /\ stdout' = Append(stdout, SavedLine)
    /\ handle' = "closed"
    /\ pc' = "main_ok"
    /\ UNCHANGED <<overflowChecks, sys, info, diskIdx, stderr, json, steps, err,
                   opens, writes, fileContent, fileContent0, exitCode,
                   fmtIn, fmtOut>>

\* ------------------------------------------------------------------------
\* main
\* ------------------------------------------------------------------------

\* AppErrorFmt with the FileCreation and FileWrite messages exchanged.
AppErrorFmt_m(e) ==
    CASE e.kind = "FileCreation"      -> "Failed to write to file: "
      [] e.kind = "FileWrite"         -> "Failed to create file: "
      [] e.kind = "JsonSerialization" -> "Failed to serialize data to JSON: "

\* impl fmt::Display for AppError: the text before the wrapped cause.
AppErrorFmt(e) ==
    CASE e.kind = "FileCreation"      -> "Failed to create file: "
      [] e.kind = "FileWrite"         -> "Failed to write to file: "
      [] e.kind = "JsonSerialization" -> "Failed to serialize data to JSON: "

\* run() returned Ok: main returns and the process exits with 0.
MainOk ==
    /\ pc = "main_ok"
    /\ exitCode' = 0
    /\ pc' = "exited"
    /\ UNCHANGED <<overflowChecks, sys, info, diskIdx, stdout, stderr, json, steps,
                   err, handle, opens, writes, fileContent, fileContent0,
                   fmtIn, fmtOut>>

\* run() returned Err(e): eprintln!("Error: {}", e) and exit(1).
MainErr ==
    /\ pc = "main_err"
    /\ stderr' = Append(stderr, [kind |-> "Error: ", desc |-> AppErrorFmt(err),
                                 cause |-> err.cause])
    /\ exitCode' = 1
    /\ pc' = "exited"
    /\ UNCHANGED <<overflowChecks, sys, info, diskIdx, stdout, json, steps,
                   err, handle, opens, writes, fileContent, fileContent0,
                   fmtIn, fmtOut>>

\* ------------------------------------------------------------------------
\* Specification of a run
\* ------------------------------------------------------------------------

Init ==
    /\ pc = "start"
    /\ overflowChecks \in BOOLEAN
    /\ sys \in Hosts
    /\ info = EmptyInfo
    /\ diskIdx = 1
    /\ stdout = <<>>
    /\ stderr = <<>>
    /\ json = <<>>
    /\ steps = [serialize |-> "none", create |-> "none", write |-> "none"]
    /\ err = NoError
    /\ handle = "none"
    /\ opens = 0
    /\ writes = 0
    /\ fileContent0 \in {NoFile, OldFile}
    /\ fileContent = fileContent0
    /\ exitCode = NoExit
    /\ fmtIn = Zero64
    /\ fmtOut = <<>>

Next ==
    \/ Collect
    \/ PrintSystem
    \/ PrintDiskHeader
    \/ PrintDisk
    \/ PanicDisk
    \/ PrintNetworks
    \/ SerializeOk
    \/ SerializeFail
    \/ CreateOk
    \/ CreateFail
    \/ WriteOk
    \/ WriteFail
    \/ Confirm
    \/ MainOk
    \/ MainErr

Spec == Init /\ [][Next]_vars

\* ------------------------------------------------------------------------
\* Specification of format_bytes alone
\* ------------------------------------------------------------------------

LimbSamples == {0, 1, 512, 1023}
TopLimbSamples == {0, 1, 15}

\* Every byte count below 2 * 1024, and counts spread over the whole u64
\* range, with the powers of 1024, their neighbours and u64::MAX.
FmtInputs ==
    { <<a, b, 0, 0, 0, 0, 0>> : a \in 0..(THRESHOLD - 1), b \in {0, 1} }
    \cup
    { <<a, b, c, d, e, f, g>> :
        a \in LimbSamples, b \in LimbSamples, c \in LimbSamples,
        d \in LimbSamples, e \in LimbSamples, f \in LimbSamples,
        g \in TopLimbSamples }

IdleHost ==
    [name |-> NoneStr, os_version |-> NoneStr, physical_core_count |-> NoneNum,
     memory |-> [total_memory |-> Zero64, used_memory |-> Zero64,
                 total_swap |-> Zero64, used_swap |-> Zero64],
     disks |-> <<>>, networks |-> <<>>]

InitFmt ==
    /\ pc = "fmt"
    /\ overflowChecks = FALSE
    /\ sys = IdleHost
    /\ info = EmptyInfo
    /\ diskIdx = 1
    /\ stdout = <<>>
    /\ stderr = <<>>
    /\ json = <<>>
    /\ steps = [serialize |-> "none", create |-> "none", write |-> "none"]
    /\ err = NoError
    /\ handle = "none"
    /\ opens = 0
    /\ writes = 0
    /\ fileContent0 = NoFile
    /\ fileContent = NoFile
    /\ exitCode = NoExit
    /\ fmtIn \in FmtInputs
    /\ fmtOut = <<>>

FormatBytes ==
    /\ pc = "fmt"
    /\ fmtOut' = format_bytes(fmtIn)
    /\ pc' = "fmt_done"
    /\ UNCHANGED <<overflowChecks, sys, info, diskIdx, stdout, stderr, json, steps,
                   err, handle, opens, writes, fileContent, fileContent0, exitCode,
                   fmtIn>>

NextFmt == FormatBytes

SpecFmt == InitFmt /\ [][NextFmt]_vars

\* ------------------------------------------------------------------------
\* Properties
\* ------------------------------------------------------------------------

Exited == pc = "exited"

AllSucceeded ==
    steps.serialize = "ok" /\ steps.create = "ok" /\ steps.write = "ok"

ErrorLine(desc, cause) == [kind |-> "Error: ", desc |-> desc, cause |-> cause]

\* C1: a finished run has exit code 0 exactly when serialization, file
\* creation and the write all succeeded; a failure of one of the three stops
\* the run at that step (the later steps are never attempted), leaves exactly
\* one line "Error: <description of that kind>" on stderr and exit code 1.
C1_ExitCodes ==
    Exited =>
        /\ (exitCode = 0 <=> AllSucceeded)
        /\ steps.serialize = "fail" =>
              /\ steps.create = "none" /\ steps.write = "none"
              /\ exitCode = 1
              /\ stderr = <<ErrorLine("Failed to serialize data to JSON: ", err.cause)>>
        /\ steps.create = "fail" =>
              /\ steps.write = "none"
              /\ exitCode = 1
              /\ stderr = <<ErrorLine("Failed to create file: ", err.cause)>>
        /\ steps.write = "fail" =>
              /\ exitCode = 1
              /\ stderr = <<ErrorLine("Failed to write to file: ", err.cause)>>

C1_Witness ==
    /\ Exited /\ steps.create = "fail" /\ exitCode = 1
    /\ stderr = <<ErrorLine("Failed to create file: ", "std::io::Error")>>

\* The console report a host calls for, line by line.
ReportLen(h) ==
    8 + 1 + (IF Len(h.disks) = 0 THEN 1 ELSE Len(h.disks))
      + 1 + (IF Len(h.networks) = 0 THEN 1 ELSE 3 * Len(h.networks))

DiskBase == 9
NetBase(h) == 9 + (IF Len(h.disks) = 0 THEN 1 ELSE Len(h.disks)) + 1

ReportComplete ==
    /\ Len(stdout) >= ReportLen(sys)
    /\ stdout[1].kind = "System Information:"
    /\ stdout[2].kind = "  OS Name: "
    /\ stdout[3].kind = "  OS Version: "
    /\ stdout[4].kind = "  CPU Cores: "
    /\ stdout[5].kind = "  Total Memory: "
    /\ stdout[6].kind = "  Used Memory: "
    /\ stdout[7].kind = "  Total Swap: "
    /\ stdout[8].kind = "  Used Swap: "
    /\ stdout[DiskBase].kind = "\nDisk Usage:"
    /\ IF Len(sys.disks) = 0
       THEN stdout[DiskBase + 1].kind = "  No disks detected"
       ELSE \A i \in 1..Len(sys.disks) :
                /\ stdout[DiskBase + i].kind = "disk"
                /\ stdout[DiskBase + i].name = sys.disks[i].mount_point
    /\ stdout[NetBase(sys)].kind = "\nNetwork Interfaces:"
    /\ IF Len(sys.networks) = 0
       THEN stdout[NetBase(sys) + 1].kind = "  No network interfaces detected"
       ELSE \A i \in 1..Len(sys.networks) :
                /\ stdout[NetBase(sys) + 3 * i - 2].kind = "net"
                /\ stdout[NetBase(sys) + 3 * i - 2].str = sys.networks[i].name
                /\ stdout[NetBase(sys) + 3 * i - 1].kind = "    Received: "
                /\ stdout[NetBase(sys) + 3 * i].kind = "    Transmitted: "

\* C2: whenever serialization is about to be attempted or any of
\* serialization, file creation or the write has been attempted, the whole
\* console report is already on stdout; so it is in every run that ended
\* with a file-creation or file-write failure.
C2_ReportBeforeFile ==
    /\ (pc = "serialize" \/ steps.serialize # "none" \/ steps.create # "none"
            \/ steps.write # "none") => ReportComplete
    /\ err.kind \in {"FileCreation", "FileWrite"} => ReportComplete

C2_Witness ==
    /\ Exited /\ err.kind = "FileWrite"
    /\ Len(sys.disks) = 2 /\ Len(sys.networks) = 1
    /\ ReportComplete

\* C3: a finished run has reached the serialization step, and a run that
\* did not succeed failed with one of the three error kinds.
C3_OnlyThreeFailures ==
    Exited =>
        /\ steps.serialize # "none"
        /\ exitCode # 0 =>
              /\ exitCode = 1
              /\ err.kind \in {"FileCreation", "FileWrite", "JsonSerialization"}

\* C4: the file is opened at most once, write_all is issued only on an open
\* handle, and no run ends with the handle open: a run that opened the file
\* ends with it closed.
C4_HandleLifecycle ==
    /\ [](/\ opens <= 1
          /\ Exited => handle # "open"
          /\ (Exited /\ opens = 1) => handle = "closed")
    /\ [][writes' # writes => handle = "open"]_vars

C4_Witness ==
    Exited /\ steps.write = "fail" /\ opens = 1 /\ handle = "closed" /\ exitCode = 1

\* C5: at the end of a run every disk with total_space = 0 has its line on
\* stdout, showing the percentage 0.0.
C5_ZeroTotalZeroPercent ==
    Exited =>
        \A i \in 1..Len(sys.disks) :
            IsZero(sys.disks[i].total_space) =>
                /\ Len(stdout) >= DiskBase + i
                /\ stdout[DiskBase + i].kind = "disk"
                /\ stdout[DiskBase + i].percent = PercentZero

\* The numbers a reader of the JSON document finds under a key, in order.
NumbersAt(data, key) ==
    LET sel == SelectSeq(data, LAMBDA e : e.kind = "number" /\ e.key = key)
    IN  [i \in 1..Len(sel) |-> ParseDec(sel[i].num)]

RawCores == IF sys.physical_core_count.some THEN sys.physical_core_count.val ELSE 0

\* C6: from its construction on, the snapshot holds the raw values of the
\* collaborator, and the numbers read back from a completely written
\* system_info.json are those raw values.
C6_SnapshotRaw ==
    /\ pc \notin {"start", "fmt", "fmt_done"} =>
          /\ info.cpu_cores = RawCores
          /\ info.total_memory = sys.memory.total_memory
          /\ info.used_memory = sys.memory.used_memory
          /\ info.total_swap = sys.memory.total_swap
          /\ info.used_swap = sys.memory.used_swap
          /\ Len(info.disks) = Len(sys.disks)
          /\ Len(info.networks) = Len(sys.networks)
          /\ \A i \in 1..Len(sys.disks) :
                /\ info.disks[i].total_space = sys.disks[i].total_space
                /\ info.disks[i].available_space = sys.disks[i].available_space
          /\ \A i \in 1..Len(sys.networks) :
                /\ info.networks[i].bytes_received = sys.networks[i].received
                /\ info.networks[i].bytes_transmitted = sys.networks[i].transmitted
                /\ info.networks[i].packets_received = sys.networks[i].packets_received
                /\ info.networks[i].packets_transmitted = sys.networks[i].packets_transmitted
    /\ steps.write = "ok" =>
          LET d == fileContent.data
          IN  /\ NumbersAt(d, "cpu_cores") = <<FromUsize(RawCores)>>
              /\ NumbersAt(d, "total_memory") = <<sys.memory.total_memory>>
              /\ NumbersAt(d, "used_memory") = <<sys.memory.used_memory>>
              /\ NumbersAt(d, "total_swap") = <<sys.memory.total_swap>>
              /\ NumbersAt(d, "used_swap") = <<sys.memory.used_swap>>
              /\ NumbersAt(d, "total_space")
                    = [i \in 1..Len(sys.disks) |-> sys.disks[i].total_space]
              /\ NumbersAt(d, "available_space")
                    = [i \in 1..Len(sys.disks) |-> sys.disks[i].available_space]
              /\ NumbersAt(d, "bytes_received")
                    = [i \in 1..Len(sys.networks) |-> sys.networks[i].received]
              /\ NumbersAt(d, "bytes_transmitted")
                    = [i \in 1..Len(sys.networks) |-> sys.networks[i].transmitted]
              /\ NumbersAt(d, "packets_received")
                    = [i \in 1..Len(sys.networks) |-> sys.networks[i].packets_received]
              /\ NumbersAt(d, "packets_transmitted")
                    = [i \in 1..Len(sys.networks) |-> sys.networks[i].packets_transmitted]

C6_Witness ==
    /\ Exited /\ steps.write = "ok"
    /\ sys.memory.total_memory = U64Max
    /\ Len(sys.disks) = 2 /\ Len(sys.networks) = 1
    /\ Len(stdout) > ReportLen(sys)
    /\ NumbersAt(fileContent.data, "total_memory") = <<U64Max>>

\* The characters of a text, as one string.
RECURSIVE Join(_)
Join(text) == IF text = <<>> THEN "" ELSE Head(text) \o Join(Tail(text))

BelowThreshold(n) == \A i \in 2..NLimbs : n[i] = 0

\* C7: for 0 <= n < 1024, format_bytes(n) is the decimal integer n followed
\* by " B", without a decimal point; format_bytes(0) is "0 B".
C7_BytesExact ==
    (pc = "fmt_done" /\ BelowThreshold(fmtIn)) =>
        /\ Join(fmtOut) = ToString(fmtIn[1]) \o " B"
        /\ \A i \in 1..Len(fmtOut) : fmtOut[i] # "."
        /\ IsZero(fmtIn) => fmtOut = <<"0", " ", "B">>

C7_Witness ==
    /\ pc = "fmt_done"
    /\ fmtIn = <<1023, 0, 0, 0, 0, 0, 0>>
    /\ fmtOut = <<"1", "0", "2", "3", " ", "B">>

\* 1024^k as a u64, for k in 0..6.
Pow1024(k) == [i \in 1..NLimbs |-> IF i = k + 1 THEN 1 ELSE 0]

\* The unit of a formatted byte count: the text after its space.
UnitOf(text) ==
    LET i == CHOOSE j \in 1..Len(text) : text[j] = " "
    IN  SubSeq(text, i + 1, Len(text))

\* C8: for n >= 1, format_bytes(n) carries the unit of index min(k, 4),
\* where 1024^k <= n < 1024^(k+1); 1024 is "1.00 KB", 1024^3 is "1.00 GB",
\* and everything from 1024^4 to u64::MAX is in TB.
C8_UnitIndex ==
    (pc = "fmt_done" /\ ~IsZero(fmtIn)) =>
        /\ \E k \in 0..(NLimbs - 1) :
              /\ ~Lt(fmtIn, Pow1024(k))
              /\ k < NLimbs - 1 => Lt(fmtIn, Pow1024(k + 1))
              /\ UnitOf(fmtOut) = UNITS[(IF k < 4 THEN k ELSE 4) + 1]
        /\ fmtIn = KiB => Join(fmtOut) = "1.00 KB"
        /\ fmtIn = Pow1024(2) => Join(fmtOut) = "1.00 MB"
        /\ fmtIn = GiB => Join(fmtOut) = "1.00 GB"
        /\ ~Lt(fmtIn, TiB) => UnitOf(fmtOut) = <<"T", "B">>

C8_Witness ==
    /\ pc = "fmt_done"
    /\ fmtIn = U64Max
    /\ Join(fmtOut) = "16777216.00 TB"

\* C9: a run whose serialization failed never opened the file and left it
\* as it was before the run; the file is created or changed only in runs
\* whose serialization succeeded.
C9_SerializeBeforeCreate ==
    /\ steps.serialize = "fail" =>
          /\ opens = 0 /\ handle = "none" /\ steps.create = "none"
          /\ fileContent = fileContent0
    /\ (fileContent # fileContent0 \/ opens > 0 \/ steps.create # "none")
          => steps.serialize = "ok"

C9_Witness ==
    /\ Exited /\ steps.serialize = "fail"
    /\ fileContent0 = OldFile /\ fileContent = OldFile /\ opens = 0

SavedAt(i) == stdout[i].kind = SavedLine.kind

\* C10: the confirmation line is on stdout only after serialization, file
\* creation and the complete write have succeeded, it is then the last line
\* of stdout, and no "Error:" line or exit code 1 goes with it; a finished
\* run has printed it exactly when the three steps succeeded.
C10_Confirmation ==
    /\ \A i \in 1..Len(stdout) :
          SavedAt(i) =>
              /\ AllSucceeded
              /\ fileContent.data = json
              /\ i = Len(stdout)
              /\ stderr = <<>>
              /\ exitCode \in {NoExit, 0}
    /\ Exited => (AllSucceeded <=> \E i \in 1..Len(stdout) : SavedAt(i))

C10_Witness ==
    /\ Exited /\ exitCode = 0
    /\ Len(stdout) = ReportLen(sys) + 1
    /\ SavedAt(Len(stdout))

====
